---- MODULE Spec2Model ----
(***************************************************************************)
(* Model of GOES_XRS/updated_paramsearch.py: class ParameterSearch.         *)
(*                                                                         *)
(* The sweep (loop_through_parameters) replays every flare of the archive  *)
(* under every parameter combination: trigger detection, cancellation and  *)
(* observation-window statistics per flare, then the post-loop enrichment, *)
(* the NaN filter and the CSV write per combination.                       *)
(*                                                                         *)
(* Conventions.  Python indices are 0-based, TLA+ sequences 1-based: the   *)
(* sample with Python index k of series s is s[k + 1].  Fluxes are         *)
(* integers (a fixed flux unit), timestamps are seconds.  NaN is modelled  *)
(* explicitly: three-valued flags are the strings "True", "False", "nan";  *)
(* numeric cells are records with a nan field.  x > 0.2 * y is evaluated   *)
(* as 5 * x > y.  An uncaught IndexError ends the run in pc = "IndexError".*)
(***************************************************************************)
EXTENDS Integers, Sequences, FiniteSets, TLC

\* ------------------------------------------------------------------ bounds
MaxFlares == 2
MaxConfigs == 2
MaxFlux == 3
ShortLen == 10
MidLen == 12
LongLen == 30
SuccessFluxValue == 2

\* ------------------------------------------------------- program constants
Latency == 3
LaunchPrep == 4
LaunchTime == 2
ObsLength == 6
ReferenceIndex == 14
CancelLookahead == 3
LongDurationLag == 20
BarDen == 5

\* ------------------------------------------------------------------ helpers
Max0(x) == IF x < 0 THEN 0 ELSE x
Abs(x) == IF x < 0 THEN -x ELSE x
MinOf(a, b) == IF a < b THEN a ELSE b

\* b as a pandas cell holding a boolean
Flag(b) == IF b THEN "True" ELSE "False"

\* math.nan in a numeric cell, and a known number
NaNCell == [nan |-> TRUE, v |-> 0]
Num(x) == [nan |-> FALSE, v |-> x]

\* s[a:b] of Python for 0 <= a <= b: clipped at the end of s, never an error
PySlice(s, a, b) == SubSeq(s, a + 1, MinOf(b, Len(s)))

RECURSIVE SumSeq(_)
SumSeq(s) == IF s = <<>> THEN 0 ELSE Head(s) + SumSeq(Tail(s))

RECURSIVE MaxSeq(_)
MaxSeq(s) ==
    IF Len(s) = 1 THEN s[1]
    ELSE LET m == MaxSeq(Tail(s)) IN IF s[1] >= m THEN s[1] ELSE m

\* np.where(mask)[0]: the 0-based indices at which the boolean array mask
\* is True, ascending
NpWhere(mask) == SelectSeq([k \in 1..Len(mask) |-> k - 1], LAMBDA k : mask[k + 1])

\* --------------------------------------------------------------- the archive
\* One record of the FITS table.  xrsb is a tent of height h around Python
\* index pk; xrsa is one unit higher and peaks one sample earlier ("early"),
\* two samples later ("late"), or is constant ("flat"); time is one sample a
\* minute; peak time is the time of sample pk, or, with found = FALSE, a
\* timestamp between two samples.
Tent(len, pk, h) == [k \in 1..len |-> Max0(h - Abs((k - 1) - pk))]

Xrsa(len, pk, h, xa) ==
    CASE xa = "early" -> Tent(len, pk - 1, h + 1)
      [] xa = "late" -> Tent(len, pk + 2, h + 1)
      [] xa = "flat" -> [k \in 1..len |-> h + 1]

Flare(id, len, pk, h, xa, found) ==
    [id |-> id,
     time |-> [k \in 1..len |-> 60 * (k - 1)],
     xrsa |-> Xrsa(len, pk, h, xa),
     xrsb |-> Tent(len, pk, h),
     peak_time |-> IF found THEN 60 * pk ELSE 60 * pk + 30,
     peak_flux |-> h]

Lengths == {ShortLen, MidLen, LongLen}

\* every flare shape, for an archive of one flare
RichFlares ==
    {Flare(1, len, pk, h, xa, found) :
        len \in Lengths, pk \in 0..(LongLen - 1), h \in 1..MaxFlux,
        xa \in {"early", "late", "flat"}, found \in BOOLEAN}

\* a few shapes, for archives of several flares
BasicShapes ==
    {<<LongLen, 5, MaxFlux, TRUE>>, <<LongLen, 5, 1, TRUE>>,
     <<LongLen, 5, MaxFlux, FALSE>>, <<ShortLen, ShortLen - 2, MaxFlux, TRUE>>}

\* archives of n flares; the flare IDs are all distinct, or (dup) all the same
Archives(n, dup) ==
    {[i \in 1..n |-> Flare(IF dup THEN 1 ELSE i, sh[i][1], sh[i][2], sh[i][3], "early", sh[i][4])] :
        sh \in [1..n -> BasicShapes]}

\* A parameter combination: one row of param_grid.  scalar is the outcome of
\* the isinstance tests (an element of a 1-D grid); th holds the thresholds.
ScalarParams == {[scalar |-> TRUE, th |-> <<p>>] : p \in 1..2}
TupleParams == {[scalar |-> FALSE, th |-> <<p, q>>] : p \in 1..2, q \in 1..2}
SweepTupleParams == {[scalar |-> FALSE, th |-> <<p, 1>>] : p \in 1..2}

\* the series of flare f that are checked against the thresholds: xrsb for a
\* scalar threshold, (xrsa, xrsb) for a pair
ParamArrays(f, scalar) == IF scalar THEN f.xrsb ELSE <<f.xrsa, f.xrsb>>

VARIABLES
    data,                 \* self.data: the archive, a sequence of flare records
    param_grid,           \* self.param_grid
    pc,                   \* the statement the sweep is at
    j,                    \* parameters started so far (param_grid[j] is the current one)
    i,                    \* flares of the current pass already processed
    triggered_bool,       \* self.triggered_bool
    trigger_index,        \* self.trigger_index
    hic_obs_start,        \* self.hic_obs_start
    hic_obs_end,          \* self.hic_obs_end
    calculated_flarelist, \* self.calculated_flarelist
    launches_df,          \* self.launches_df, a sequence of rows
    written               \* the tables handed to to_csv, in order

vars == <<data, param_grid, pc, j, i, triggered_bool, trigger_index,
          hic_obs_start, hic_obs_end, calculated_flarelist, launches_df, written>>

parameter == param_grid[j]
N == Len(data)

\* ------------------------------------------- flareloop_check_if_value_surpassed
\* np.where(arrays > parameters)[0] of the two scalar branches
ScalarCheck(arrays, p) == NpWhere([k \in 1..Len(arrays) |-> arrays[k] > p])

\* The else branch.  zip pairs the series with the thresholds (to the shorter
\* of the two); each pair writes the column named f'param {p}' of df, so a
\* later pair with an equal threshold replaces the column of an earlier one;
\* df.all(1) is the conjunction of the columns that remain.
ZipLen(arrays, th) == MinOf(Len(arrays), Len(th))
ColumnOf(th, n, p) == CHOOSE c \in 1..n : th[c] = p /\ \A d \in (c + 1)..n : th[d] # p
TruthDf(arrays, th, k) ==
    \A c \in 1..ZipLen(arrays, th) :
        arrays[ColumnOf(th, ZipLen(arrays, th), th[c])][k + 1] >= th[c]
TupleCheck(arrays, th) ==
    IF ZipLen(arrays, th) = 0 THEN <<>>
    ELSE NpWhere([k \in 1..Len(arrays[1]) |-> TruthDf(arrays, th, k - 1)])

TriggeredCheck(arrays, parameters) ==
    IF parameters.scalar THEN ScalarCheck(arrays, parameters.th[1])
    ELSE TupleCheck(arrays, parameters.th)

\* the check without the reset of line 90
TriggeredBool_NoReset(before, triggered_check) == before \/ Len(triggered_check) # 0

\* self.triggered_bool after the check: reset to False, set on a hit
TriggeredBool(before, triggered_check) == Len(triggered_check) # 0

\* the window without the latency and the launch preparation
HicObsStart_LaunchTimeOnly(t) == t + LaunchTime
\* a window of five samples
HicObsEnd_Short(start) == start + ObsLength - 1

HicObsStart(t) == t + Latency + LaunchPrep + LaunchTime
HicObsEnd(start) == start + ObsLength

\* --------------------------------------- calculate_observed_xrsb_and_cancellation
HicObsXrsb(f, start, end) == PySlice(f.xrsb, start, end)

\* line 122 reads time[14] and time[hic_obs_start] without a length test
PeakBoolRaises(f, start) ==
    ReferenceIndex >= Len(f.time) \/ start >= Len(f.time)

\* the subscripts of lines 122 and 124 raise IndexError past the end of time
CalcRaises(f, t, start, end) ==
    \/ Len(HicObsXrsb(f, start, end)) # 0 /\ PeakBoolRaises(f, start)
    \/ t >= Len(f.time)

PeakBool(f, start) ==
    Flag(f.time[ReferenceIndex + 1] < f.time[start + 1] /\ f.time[start + 1] < f.peak_time)

\* the comparison with <= in place of <
CancellationBool_Le(f, t) ==
    IF t + CancelLookahead < Len(f.xrsa)
    THEN Flag(f.xrsa[t + CancelLookahead + 1] - f.xrsa[t + 1] <= 0)
    ELSE "nan"

CancellationBool(f, t) ==
    IF t + CancelLookahead < Len(f.xrsa)
    THEN Flag(f.xrsa[t + CancelLookahead + 1] - f.xrsa[t + 1] < 0)
    ELSE "nan"

\* the list appended to calculated_flarelist for flare number n (0-based)
FlarelistRow(n, f, t, start, end) ==
    LET hic_obs_xrsb == HicObsXrsb(f, start, end)
        empty == Len(hic_obs_xrsb) = 0
    IN  [Flare_Number |-> n,
         Flare_ID |-> f.id,
         Cancelled |-> CancellationBool(f, t),
         Trigger_Time |-> f.time[t + 1],
         Peak_Observed |-> IF empty THEN "nan" ELSE PeakBool(f, start),
         Max_HiC |-> IF empty THEN NaNCell ELSE Num(MaxSeq(hic_obs_xrsb)),
         Mean_HiC |-> IF empty THEN [nan |-> TRUE, num |-> 0, den |-> 1]
                      ELSE [nan |-> FALSE, num |-> SumSeq(hic_obs_xrsb),
                            den |-> Len(hic_obs_xrsb)]]

\* ------------------------------------------------------------ post-loop functions
\* np.where(flare_id == self.data['flare ID'])[0][0]: the first record with the ID
LaunchedFlare(archive, flare_id) ==
    NpWhere([k \in 1..Len(archive) |-> archive[k].id = flare_id])[1]

\* lines 162-171
LongDurationCell(f, flare_max_flux, peak_time) ==
    LET peak_time_indx == NpWhere([k \in 1..Len(f.time) |-> f.time[k] = peak_time])
    IN  IF Len(peak_time_indx) > 0
        THEN LET final_flux ==
                    IF peak_time_indx[1] + LongDurationLag >= Len(f.time) THEN 0
                    ELSE f.time[peak_time_indx[1] + LongDurationLag + 1]
             IN  Flag(BarDen * final_flux > flare_max_flux)
        ELSE "nan"

\* one row of launches_df after save_flarelist_to_df and save_fitsinfo_to_df
FitsinfoRow(archive, r) ==
    LET f == archive[LaunchedFlare(archive, r.Flare_ID) + 1]
    IN  [Flare_Number |-> r.Flare_Number,
         Flare_ID |-> r.Flare_ID,
         Cancelled |-> r.Cancelled,
         Trigger_Time |-> r.Trigger_Time,
         Peak_Observed |-> r.Peak_Observed,
         Max_HiC |-> r.Max_HiC,
         Mean_HiC |-> r.Mean_HiC,
         Flare_Max_Flux |-> f.peak_flux,
         Flare_Success |-> Flag(f.peak_flux > SuccessFluxValue),
         Peak_Time |-> f.peak_time,
         Duration |-> Len(f.xrsa) - 30,
         Trigger_to_Peak_Time |-> [num |-> f.peak_time - r.Trigger_Time, den |-> 60],
         LongDuration |-> LongDurationCell(f, f.peak_flux, f.peak_time)]

save_fitsinfo_to_df(archive, flarelist) ==
    [n \in 1..Len(flarelist) |-> FitsinfoRow(archive, flarelist[n])]

\* calculate_Successlevel_andLongDuration and calculate_HiCobs_success: a
\* comparison with NaN is False
SuccessRow(r) ==
    [Flare_Number |-> r.Flare_Number,
     Flare_ID |-> r.Flare_ID,
     Cancelled |-> r.Cancelled,
     Trigger_Time |-> r.Trigger_Time,
     Peak_Observed |-> r.Peak_Observed,
     Max_HiC |-> r.Max_HiC,
     Mean_HiC |-> r.Mean_HiC,
     Flare_Max_Flux |-> r.Flare_Max_Flux,
     Flare_Success |-> r.Flare_Success,
     Peak_Time |-> r.Peak_Time,
     Duration |-> r.Duration,
     Trigger_to_Peak_Time |-> r.Trigger_to_Peak_Time,
     LongDuration |-> r.LongDuration,
     Flare_Success_LongDuration |->
         Flag(r.Flare_Success = "True" /\ r.LongDuration = "True"),
     HiC_Max_LongDuration |->
         Flag(~r.Max_HiC.nan /\ BarDen * r.Max_HiC.v > r.Flare_Max_Flux),
     HiC_Mean_LongDuration |->
         Flag(~r.Mean_HiC.nan /\ BarDen * r.Mean_HiC.num > r.Flare_Max_Flux * r.Mean_HiC.den)]

calculate_success(df) == [n \in 1..Len(df) |-> SuccessRow(df[n])]

\* dropna on Max_HiC alone
drop_na_MaxOnly(df) == SelectSeq(df, LAMBDA r : ~r.Max_HiC.nan)

\* launches_df.dropna(subset=['Max_HiC', 'LongDuration'])
drop_na(df) == SelectSeq(df, LAMBDA r : ~r.Max_HiC.nan /\ r.LongDuration # "nan")

\* save_param_combo_info: the same parameter columns on every row
save_param_combo_info(df, p) ==
    [n \in 1..Len(df) |-> [row |-> df[n], params |-> p.th]]

\* the list left as it is
KeptFlarelist == calculated_flarelist

\* lines 47-48: the state left for the next parameter
ClearedFlarelist == <<>>
ClearedDf == PySlice(launches_df, 0, 0)

\* ------------------------------------------------------------------------ Init
GridsOf(params) == UNION {[1..n -> params] : n \in 1..MaxConfigs}

\* One flare of any shape under one parameter combination, or an archive of a
\* few basic shapes swept by a grid (a grid is all scalars or all pairs).
InitInputs(tuples, sweepTuples) ==
    \/ /\ data \in {<<f>> : f \in RichFlares}
       /\ param_grid \in {<<p>> : p \in ScalarParams \cup tuples}
    \/ /\ data \in UNION {Archives(n, dup) : n \in 1..MaxFlares, dup \in BOOLEAN}
       /\ param_grid \in GridsOf(ScalarParams) \cup GridsOf(sweepTuples)

\* the state __init__ leaves
InitState ==
    /\ pc = "param_loop"
    /\ j = 0
    /\ i = 0
    /\ triggered_bool = FALSE
    /\ trigger_index = 0
    /\ hic_obs_start = 0
    /\ hic_obs_end = 0
    /\ calculated_flarelist = <<>>
    /\ launches_df = <<>>
    /\ written = <<>>

Init == InitInputs(TupleParams, SweepTupleParams) /\ InitState

\* the grids whose pairs hold two different thresholds
Distinct(params) == {p \in params : p.th[1] # p.th[2]}
InitDistinct == InitInputs(Distinct(TupleParams), Distinct(SweepTupleParams)) /\ InitState

\* --------------------------------------------------------------------- actions
\* line 39: the next parameter of the grid, then loop_through_flares
NextParameter ==
    /\ pc = "param_loop"
    /\ j < Len(param_grid)
    /\ j' = j + 1
    /\ i' = 0
    /\ pc' = "flare_loop"
    /\ UNCHANGED <<data, param_grid, triggered_bool, trigger_index, hic_obs_start,
                   hic_obs_end, calculated_flarelist, launches_df, written>>

\* lines 69-71 and 90-105, for the flare with number i
CheckFlare ==
    /\ pc = "flare_loop"
    /\ i < N
    /\ LET triggered_check ==
               TriggeredCheck(ParamArrays(data[i + 1], parameter.scalar), parameter)
           hit == TriggeredBool(triggered_bool, triggered_check)
       IN  /\ triggered_bool' = hit
           /\ IF Len(triggered_check) # 0
              THEN /\ trigger_index' = triggered_check[1]
                   /\ hic_obs_start' = HicObsStart(triggered_check[1])
                   /\ hic_obs_end' = HicObsEnd(HicObsStart(triggered_check[1]))
              ELSE UNCHANGED <<trigger_index, hic_obs_start, hic_obs_end>>
           /\ IF hit
              THEN pc' = "calculate" /\ i' = i
              ELSE pc' = "flare_loop" /\ i' = i + 1
    /\ UNCHANGED <<data, param_grid, j, calculated_flarelist, launches_df, written>>

\* lines 114-130, for the flare with number i
CalculateObserved ==
    /\ pc = "calculate"
    /\ IF CalcRaises(data[i + 1], trigger_index, hic_obs_start, hic_obs_end)
       THEN /\ pc' = "IndexError"
            /\ UNCHANGED <<i, calculated_flarelist>>
       ELSE /\ calculated_flarelist' =
                   Append(calculated_flarelist,
                          FlarelistRow(i, data[i + 1], trigger_index, hic_obs_start, hic_obs_end))
            /\ i' = i + 1
            /\ pc' = "flare_loop"
    /\ UNCHANGED <<data, param_grid, j, triggered_bool, trigger_index, hic_obs_start,
                   hic_obs_end, launches_df, written>>

\* line 43, after the last flare
EndFlares ==
    /\ pc = "flare_loop"
    /\ i = N
    /\ pc' = IF Len(calculated_flarelist) > 0 THEN "postloop" ELSE "param_loop"
    /\ UNCHANGED <<data, param_grid, j, i, triggered_bool, trigger_index, hic_obs_start,
                   hic_obs_end, calculated_flarelist, launches_df, written>>

\* lines 136-139
EnrichDf ==
    /\ pc = "postloop"
    /\ launches_df' = calculate_success(save_fitsinfo_to_df(data, calculated_flarelist))
    /\ pc' = "drop_na"
    /\ UNCHANGED <<data, param_grid, j, i, triggered_bool, trigger_index, hic_obs_start,
                   hic_obs_end, calculated_flarelist, written>>

\* line 140
DropNa ==
    /\ pc = "drop_na"
    /\ launches_df' = drop_na(launches_df)
    /\ pc' = "save"
    /\ UNCHANGED <<data, param_grid, j, i, triggered_bool, trigger_index, hic_obs_start,
                   hic_obs_end, calculated_flarelist, written>>

\* lines 45-48
SaveAndReset ==
    /\ pc = "save"
    /\ written' = Append(written, [parameter |-> j,
                                   table |-> save_param_combo_info(launches_df, parameter)])
    /\ calculated_flarelist' = ClearedFlarelist
    /\ launches_df' = ClearedDf
    /\ pc' = "param_loop"
    /\ UNCHANGED <<data, param_grid, j, i, triggered_bool, trigger_index, hic_obs_start,
                   hic_obs_end>>

\* the for loop of line 39 is exhausted
Finish ==
    /\ pc = "param_loop"
    /\ j = Len(param_grid)
    /\ pc' = "done"
    /\ UNCHANGED <<data, param_grid, j, i, triggered_bool, trigger_index, hic_obs_start,
                   hic_obs_end, calculated_flarelist, launches_df, written>>

Next ==
    \/ NextParameter
    \/ CheckFlare
    \/ CalculateObserved
    \/ EndFlares
    \/ EnrichDf
    \/ DropNa
    \/ SaveAndReset
    \/ Finish

Spec == Init /\ [][Next]_vars

\* the sweep over grids without equal thresholds in a pair
SpecDistinct == InitDistinct /\ [][Next]_vars

\* ======================================================================= claims
\* the flare whose row was appended last, and that row
AfterCalc == pc = "flare_loop" /\ i > 0 /\ triggered_bool
LastRow == calculated_flarelist[Len(calculated_flarelist)]
\* the check of flare number i - 1 found no trigger
AfterMiss == pc = "flare_loop" /\ i > 0 /\ ~triggered_bool

\* the trigger condition at Python index k: a scalar threshold against xrsb,
\* a pair of thresholds against (xrsa, xrsb)
ClaimCond(f, p, k) ==
    IF p.scalar THEN f.xrsb[k + 1] > p.th[1]
    ELSE f.xrsa[k + 1] >= p.th[1] /\ f.xrsb[k + 1] >= p.th[2]

\* C1: when detection reports triggered, trigger_index is the smallest index
\* at which the condition holds (scalar: series > threshold; tuple: every
\* paired series >= its threshold); it reports not-triggered exactly when no
\* index satisfies the condition.
C1_EarliestIndex ==
    /\ pc = "calculate" =>
          /\ ClaimCond(data[i + 1], parameter, trigger_index)
          /\ \A k \in 0..(trigger_index - 1) : ~ClaimCond(data[i + 1], parameter, k)
    /\ AfterMiss =>
          \A k \in 0..(Len(data[i].xrsb) - 1) : ~ClaimCond(data[i], parameter, k)

\* C2: for every triggered flare the cancellation flag is unknown iff
\* trigger_index + 3 >= length(xrsa); otherwise it is true iff
\* xrsa[trigger_index + 3] < xrsa[trigger_index] (equal values give false).
C2_Cancellation ==
    AfterCalc =>
        LET f == data[i]
            t == trigger_index
        IN  /\ LastRow.Flare_Number = i - 1
            /\ (LastRow.Cancelled = "nan") <=> (t + 3 >= Len(f.xrsa))
            /\ t + 3 < Len(f.xrsa) =>
                  ((LastRow.Cancelled = "True") <=> (f.xrsa[t + 4] < f.xrsa[t + 1]))

\* a row whose two compared xrsa samples are equal
C2_Witness ==
    /\ AfterCalc
    /\ trigger_index + 3 < Len(data[i].xrsa)
    /\ data[i].xrsa[trigger_index + 4] = data[i].xrsa[trigger_index + 1]
    /\ LastRow.Cancelled = "False"

\* the Python indices of the observation window that lie inside xrsb
Window(f, t) == {k \in (t + 9)..(t + 14) : k < Len(f.xrsb)}

RECURSIVE SumOver(_, _)
SumOver(f, W) ==
    IF W = {} THEN 0
    ELSE LET k == CHOOSE x \in W : TRUE IN f.xrsb[k + 1] + SumOver(f, W \ {k})

\* C3: for every triggered flare the window is [trigger_index + 9,
\* trigger_index + 15); max, mean and peak_observed are all unknown exactly
\* when the window holds no sample of xrsb (trigger_index + 9 >= length), and
\* otherwise max and mean are those of the samples inside the window.
C3_Window ==
    AfterCalc =>
        LET f == data[i]
            t == trigger_index
            W == Window(f, t)
        IN  /\ hic_obs_start = t + 9 /\ hic_obs_end = t + 15
            /\ LastRow.Max_HiC.nan <=> (t + 9 >= Len(f.xrsb))
            /\ LastRow.Mean_HiC.nan <=> (t + 9 >= Len(f.xrsb))
            /\ (LastRow.Peak_Observed = "nan") <=> (t + 9 >= Len(f.xrsb))
            /\ W # {} =>
                  /\ \E k \in W : LastRow.Max_HiC.v = f.xrsb[k + 1]
                  /\ \A k \in W : f.xrsb[k + 1] <= LastRow.Max_HiC.v
                  /\ LastRow.Mean_HiC.num = SumOver(f, W)
                  /\ LastRow.Mean_HiC.den = Cardinality(W)

\* a row whose window is clipped by the end of the series
C3_Witness ==
    /\ AfterCalc
    /\ trigger_index + 9 < Len(data[i].xrsb)
    /\ Len(data[i].xrsb) < trigger_index + 15
    /\ ~LastRow.Max_HiC.nan

Filtered(r) == ~r.Max_HiC.nan /\ r.LongDuration # "nan"

\* C4: the table handed to the writer has been filtered: the write follows
\* the drop step, and no row of a written table has an unknown observed max
\* flux or an unknown long-duration flag.
C4_WrittenFiltered ==
    /\ pc = "save" => \A n \in 1..Len(launches_df) : Filtered(launches_df[n])
    /\ \A w \in 1..Len(written) :
          \A n \in 1..Len(written[w].table) : Filtered(written[w].table[n].row)

\* a table about to be written that kept some rows and lost others
C4_Witness ==
    /\ pc = "save"
    /\ 0 < Len(launches_df)
    /\ Len(launches_df) < Len(calculated_flarelist)

FlareNumbers(list) == [n \in 1..Len(list) |-> list[n].Flare_Number]
Triggers(n, p) == Len(TriggeredCheck(ParamArrays(data[n + 1], p.scalar), p)) # 0

\* C5: during and after the per-flare pass of one configuration the
\* accumulated rows hold exactly one row for each flare processed that
\* triggered, none for a flare that did not, in archive order.
C5_OneRowPerTrigger ==
    pc = "flare_loop" =>
        FlareNumbers(calculated_flarelist) =
            SelectSeq([n \in 1..i |-> n - 1], LAMBDA n : Triggers(n, parameter))

\* a finished pass over several flares of which some triggered and some not
C5_Witness ==
    /\ pc = "flare_loop"
    /\ i = N
    /\ 0 < Len(calculated_flarelist)
    /\ Len(calculated_flarelist) < N

\* the rows of a pass over the archive under p, started from nothing
RECURSIVE RowsUpTo(_, _)
RowsUpTo(n, p) ==
    IF n = 0 THEN <<>>
    ELSE LET check == TriggeredCheck(ParamArrays(data[n], p.scalar), p)
         IN  IF Len(check) = 0 THEN RowsUpTo(n - 1, p)
             ELSE Append(RowsUpTo(n - 1, p),
                         FlarelistRow(n - 1, data[n], check[1], HicObsStart(check[1]),
                                      HicObsEnd(HicObsStart(check[1]))))

TableFor(p) ==
    save_param_combo_info(
        drop_na(calculate_success(save_fitsinfo_to_df(data, RowsUpTo(N, p)))), p)

\* C6: the table written for a configuration is the one a sweep of that
\* configuration alone produces, whatever was processed before it: at the
\* start of each flare loop the row list and the result table are empty.
C6_NoLeak ==
    /\ (pc = "flare_loop" /\ i = 0) => calculated_flarelist = <<>> /\ launches_df = <<>>
    /\ \A w \in 1..Len(written) :
          written[w].table = TableFor(param_grid[written[w].parameter])

\* the same configuration written twice, with rows
C6_Witness ==
    /\ Len(written) = 2
    /\ param_grid[written[1].parameter] = param_grid[written[2].parameter]
    /\ Len(written[2].table) > 0

C8_LongDuration ==
    pc = "drop_na" =>
        \A n \in 1..Len(launches_df) :
            LET f == data[LaunchedFlare(data, launches_df[n].Flare_ID) + 1]
                P == {k \in 0..(Len(f.time) - 1) : f.time[k + 1] = f.peak_time}
                p == CHOOSE k \in P : \A m \in P : k <= m
            IN  IF P = {} THEN launches_df[n].LongDuration = "nan"
                ELSE launches_df[n].LongDuration =
                        Flag(p + 20 < Len(f.xrsb) /\ 5 * f.xrsb[p + 21] > f.peak_flux)

\* C9: for every triggered flare of any length the per-flare simulation
\* completes and appends a row; no index outside the series ends in an
\* out-of-range access failure.
C9_NoIndexError == pc # "IndexError"

\* C10: in every table that reaches the writer every row has a known
\* cancellation flag and a known peak_observed flag.
C10_WrittenKnown ==
    \A w \in 1..Len(written) :
        \A n \in 1..Len(written[w].table) :
            /\ written[w].table[n].row.Cancelled # "nan"
            /\ written[w].table[n].row.Peak_Observed # "nan"

\* a table about to be written from which a row of unknown cancellation was dropped
C10_Witness ==
    /\ pc = "save"
    /\ Len(launches_df) > 0
    /\ \E n \in 1..Len(calculated_flarelist) : calculated_flarelist[n].Cancelled = "nan"

====
